---- MODULE Spec2Model ----
(***************************************************************************)
(* Model of app.py (career chat bot): the chat() conversation loop, the    *)
(* globals()-based handle_tool_calls dispatcher, the two recording tools,  *)
(* push(), and the process-wide conversation_count turn counter.           *)
(*                                                                         *)
(* Strings that the program concatenates are sequences of tokens, so that  *)
(* `contact_prompt + message` is \o.  One chat() invocation is one entry   *)
(* of the per-thread variables; the hosting ChatInterface is the caller    *)
(* that keeps each conversation's history.                                 *)
(***************************************************************************)
EXTENDS Integers, Sequences, FiniteSets, TLC

(* ------------------------------ bounds -------------------------------- *)

\* chat() invocations explored by the tool-loop specification (Spec)
LoopCalls == 2
\* chat() invocations explored by the sequential specification (SpecSeq)
MaxCalls == 6
\* chat() invocations explored by the concurrent specification (SpecConc)
ConcCalls == 2
\* tool invocation requests the LLM emits during one chat() invocation
MaxRequests == 2

Threads == {1, 2}
\* the threads that serve invocations when they do not overlap
MainThreads == {1}
Convs == {1, 2}

(* ------------------------- program constants -------------------------- *)

\* value standing for "conversation_count is not in globals()"
Absent == -1
FirstTurn == 0
FifthTurn == 4

SystemPrompt == <<"system_prompt">>
FirstPrompt == <<"Before we dive in">>
FifthPrompt == <<"Hey, just checking">>
NoPrompt == <<>>

UserMessages == {<<"q">>}
Replies == {<<"a1">>, <<"a2">>}
FinalReasons == {"stop", "length"}

RegistryTools == {"record_user_details", "record_unknown_question"}

\* the (tool name, argument payload) pairs an LLM request may carry: one per
\* path through the dispatcher
Functions ==
    {[name |-> "record_user_details", arguments |-> "{\"email\": \"a@b.com\"}"],
     [name |-> "record_unknown_question", arguments |-> "{\"question\": \"q\"}"],
     [name |-> "record_user_details", arguments |-> "{\"question\": \"q\"}"],
     [name |-> "record_unknown_question", arguments |-> "{\"email\": "],
     [name |-> "push", arguments |-> "{\"message\": \"m\"}"],
     [name |-> "name", arguments |-> "{\"email\": \"a@b.com\"}"],
     [name |-> "get_weather", arguments |-> "{\"question\": \"q\"}"]}
PlainFunctions ==
    {[name |-> "record_user_details", arguments |-> "{\"email\": \"a@b.com\"}"],
     [name |-> "record_unknown_question", arguments |-> "{\"email\": "]}

NoError == "none"
DispatchErrors == {"JSONDecodeError", "TypeError", "RequestException"}

(* ------------------------------ messages ------------------------------ *)

Msg(role, content, tool_calls, tool_call_id) ==
    [role |-> role, content |-> content, tool_calls |-> tool_calls,
     tool_call_id |-> tool_call_id]

SystemMsg(content) == Msg("system", content, <<>>, 0)
UserMsg(content) == Msg("user", content, <<>>, 0)
AssistantMsg(content, tool_calls) == Msg("assistant", content, tool_calls, 0)

\* line 184: {"role": "tool", "content": json.dumps(result), "tool_call_id": tool_call.id}
ToolMessageLost(tool_call, content) == Msg("tool", content, <<>>, 1)
ToolMessage(tool_call, content) == Msg("tool", content, <<>>, tool_call.id)

(* ------------------------------- json --------------------------------- *)

\* json.loads on the argument payload: the decoded mapping's keys, or failure
JsonLoads(s) ==
    CASE s = "{\"email\": \"a@b.com\"}" -> [ok |-> TRUE, keys |-> {"email"}]
      [] s = "{\"question\": \"q\"}" -> [ok |-> TRUE, keys |-> {"question"}]
      [] s = "{\"message\": \"m\"}" -> [ok |-> TRUE, keys |-> {"message"}]
      [] OTHER -> [ok |-> FALSE, keys |-> {}]

RecordedOk == [type |-> "dict", items |-> {<<"recorded", "ok">>}]
EmptyDict == [type |-> "dict", items |-> {}]
None == [type |-> "none", items |-> {}]

\* json.dumps on a tool result
JsonDumps(r) ==
    IF r.type = "none" THEN <<"null">>
    ELSE IF r.items = {} THEN <<"{}">>
    ELSE <<"{\"recorded\": \"ok\"}">>

(* ------------------------------- tools -------------------------------- *)

\* what globals().get(tool_name) finds
Globals(tool_name) ==
    CASE tool_name \in {"record_user_details", "record_unknown_question", "push"}
           -> [found |-> TRUE, callable |-> TRUE]
      [] tool_name = "name" -> [found |-> TRUE, callable |-> FALSE]
      [] OTHER -> [found |-> FALSE, callable |-> FALSE]

Outcome(error, result, pushes) == [error |-> error, result |-> result, pushes |-> pushes]

\* push(message): one Notifier POST, which the transport may fail
Push(netfail) ==
    IF netfail THEN Outcome("RequestException", None, 1) ELSE Outcome(NoError, None, 1)

\* record_user_details(email, name=..., notes=...)
RecordUserDetails(keys, netfail) ==
    IF ~({"email"} \subseteq keys /\ keys \subseteq {"email", "name", "notes"})
    THEN Outcome("TypeError", None, 0)
    ELSE LET p == Push(netfail)
         IN  IF p.error # NoError THEN p ELSE Outcome(NoError, RecordedOk, p.pushes)

\* record_unknown_question(question)
RecordUnknownQuestion(keys, netfail) ==
    IF keys # {"question"}
    THEN Outcome("TypeError", None, 0)
    ELSE LET p == Push(netfail)
         IN  IF p.error # NoError THEN p ELSE Outcome(NoError, RecordedOk, p.pushes)

\* lines 179-183: one iteration of the dispatcher up to `result`
Invoke(tool_call, netfail) ==
    LET arguments == JsonLoads(tool_call.function.arguments)
        tool_name == tool_call.function.name
        tool == Globals(tool_name)
    IN  IF ~arguments.ok THEN Outcome("JSONDecodeError", None, 0)
        ELSE IF ~tool.found THEN Outcome(NoError, EmptyDict, 0)
        ELSE IF ~tool.callable THEN Outcome("TypeError", None, 0)
        ELSE CASE tool_name = "record_user_details" -> RecordUserDetails(arguments.keys, netfail)
               [] tool_name = "record_unknown_question" -> RecordUnknownQuestion(arguments.keys, netfail)
               [] OTHER -> IF arguments.keys # {"message"} THEN Outcome("TypeError", None, 0)
                           ELSE Push(netfail)

Dispatch(error, results, pushes) == [error |-> error, results |-> results, pushes |-> pushes]

RECURSIVE ForEachToolCall(_, _, _, _)
\* lines 178-184: the for loop, from request i on, with the results so far
ForEachToolCall(tool_calls, net, i, acc) ==
    IF i > Len(tool_calls) THEN acc
    ELSE LET o == Invoke(tool_calls[i], net[i])
         IN  IF o.error # NoError
             THEN Dispatch(o.error, <<>>, acc.pushes + o.pushes)
             ELSE ForEachToolCall(tool_calls, net, i + 1,
                     Dispatch(NoError,
                              Append(acc.results, ToolMessage(tool_calls[i], JsonDumps(o.result))),
                              acc.pushes + o.pushes))

\* handle_tool_calls(tool_calls); net[i] says whether the Notifier POST of request i fails
HandleToolCalls(tool_calls, net) ==
    ForEachToolCall(tool_calls, net, 1, Dispatch(NoError, <<>>, 0))

(* -------------------------------- chat -------------------------------- *)

\* line 263
InitialMessagesNoPersona(history, user_input) == history \o <<UserMsg(user_input)>>
InitialMessages(history, user_input) ==
    <<SystemMsg(SystemPrompt)>> \o history \o <<UserMsg(user_input)>>

\* line 260
UserInput(contact_prompt, message) ==
    IF contact_prompt # NoPrompt THEN contact_prompt \o message ELSE message

\* line 261: the value stored by `conversation_count += 1`
IncrementedAtomic(loaded, current) == current + 1
IncrementedNot(loaded, current) == loaded
Incremented(loaded, current) == loaded + 1

\* line 282
IsToolUseOrLength(finish_reason) == finish_reason \in {"tool_calls", "length"}
IsToolUse(finish_reason) == finish_reason = "tool_calls"

\* lines 285-287: the message sequence after a dispatch
ExtendedEager(msgs, message, out) == Append(msgs, message) \o out.results
Extended(msgs, message, out) ==
    IF out.error # NoError THEN msgs ELSE Append(msgs, message) \o out.results

\* line 290
ReturnValueStripped(response) == <<>>
ReturnValue(response) == response.message.content

Response(finish_reason, message) == [finish_reason |-> finish_reason, message |-> message]
NoResponse == Response("none", AssistantMsg(<<>>, <<>>))

\* the batches of n requests an LLM response may carry, ids following `base`
Batches(base, n, fns) ==
    {[i \in 1..n |-> [id |-> base + i, function |-> f[i]]] : f \in [1..n -> fns]}

CountRole(msgs, role) == Cardinality({i \in 1..Len(msgs) : msgs[i].role = role})

VARIABLES conversation_count, calls, hist,
          pc, conv, message, contact_prompt, user_input, tmp,
          messages, response, returned, error, llm_calls, pushes

vars == <<conversation_count, calls, hist, pc, conv, message, contact_prompt,
          user_input, tmp, messages, response, returned, error, llm_calls, pushes>>

locals == <<conv, message, contact_prompt, user_input, tmp, messages, response,
            returned, error, llm_calls, pushes>>

Init ==
    /\ conversation_count = Absent
    /\ calls = 0
    /\ hist = [c \in Convs |-> <<>>]
    /\ pc = [t \in Threads |-> "idle"]
    /\ conv = [t \in Threads |-> 1]
    /\ message = [t \in Threads |-> <<>>]
    /\ contact_prompt = [t \in Threads |-> NoPrompt]
    /\ user_input = [t \in Threads |-> <<>>]
    /\ tmp = [t \in Threads |-> 0]
    /\ messages = [t \in Threads |-> <<>>]
    /\ response = [t \in Threads |-> NoResponse]
    /\ returned = [t \in Threads |-> <<>>]
    /\ error = [t \in Threads |-> NoError]
    /\ llm_calls = [t \in Threads |-> 0]
    /\ pushes = [t \in Threads |-> 0]

Active(t) == pc[t] # "idle"

\* lines 244-247: the host calls chat(message, history) for conversation c
Enter(t, c, m) ==
    /\ pc[t] = "idle"
    /\ \A u \in Threads : Active(u) => conv[u] # c
    /\ calls' = calls + 1
    /\ conv' = [conv EXCEPT ![t] = c]
    /\ message' = [message EXCEPT ![t] = m]
    /\ pc' = [pc EXCEPT ![t] = IF conversation_count = Absent THEN "init_count" ELSE "test_first"]
    /\ contact_prompt' = [contact_prompt EXCEPT ![t] = NoPrompt]
    /\ UNCHANGED <<conversation_count, hist, user_input, tmp, messages, response,
                   returned, error, llm_calls, pushes>>

\* line 248
InitCount(t) ==
    /\ pc[t] = "init_count"
    /\ conversation_count' = 0
    /\ pc' = [pc EXCEPT ![t] = "test_first"]
    /\ UNCHANGED <<calls, hist, locals>>

\* lines 250-254
TestFirst(t) ==
    /\ pc[t] = "test_first"
    /\ IF conversation_count = FirstTurn
       THEN /\ contact_prompt' = [contact_prompt EXCEPT ![t] = FirstPrompt]
            /\ pc' = [pc EXCEPT ![t] = "load"]
       ELSE /\ contact_prompt' = [contact_prompt EXCEPT ![t] = NoPrompt]
            /\ pc' = [pc EXCEPT ![t] = "test_fifth"]
    /\ UNCHANGED <<conversation_count, calls, hist, conv, message, user_input, tmp,
                   messages, response, returned, error, llm_calls, pushes>>

\* lines 255-257
TestFifth(t) ==
    /\ pc[t] = "test_fifth"
    /\ contact_prompt' = [contact_prompt EXCEPT ![t] =
                             IF conversation_count = FifthTurn THEN FifthPrompt ELSE NoPrompt]
    /\ pc' = [pc EXCEPT ![t] = "load"]
    /\ UNCHANGED <<conversation_count, calls, hist, conv, message, user_input, tmp,
                   messages, response, returned, error, llm_calls, pushes>>

\* line 260 and the read of line 261
IncLoad(t) ==
    /\ pc[t] = "load"
    /\ user_input' = [user_input EXCEPT ![t] = UserInput(contact_prompt[t], message[t])]
    /\ tmp' = [tmp EXCEPT ![t] = conversation_count]
    /\ pc' = [pc EXCEPT ![t] = "store"]
    /\ UNCHANGED <<conversation_count, calls, hist, conv, message, contact_prompt,
                   messages, response, returned, error, llm_calls, pushes>>

\* the write of line 261 and lines 263-264
IncStore(t) ==
    /\ pc[t] = "store"
    /\ conversation_count' = Incremented(tmp[t], conversation_count)
    /\ messages' = [messages EXCEPT ![t] = InitialMessages(hist[conv[t]], user_input[t])]
    /\ pc' = [pc EXCEPT ![t] = "llm"]
    /\ UNCHANGED <<calls, hist, conv, message, contact_prompt, user_input, tmp,
                   response, returned, error, llm_calls, pushes>>

\* lines 269-289: one LLM call that answers with resp, and the handling of resp
LLMRespond(t, resp, net) ==
    /\ pc[t] = "llm"
    /\ llm_calls' = [llm_calls EXCEPT ![t] = @ + 1]
    /\ response' = [response EXCEPT ![t] = resp]
    /\ IF IsToolUse(resp.finish_reason)
       THEN LET out == HandleToolCalls(resp.message.tool_calls, net)
            IN  /\ pushes' = [pushes EXCEPT ![t] = @ + out.pushes]
                /\ error' = [error EXCEPT ![t] = out.error]
                /\ messages' = [messages EXCEPT ![t] = Extended(@, resp.message, out)]
                /\ pc' = [pc EXCEPT ![t] = IF out.error # NoError THEN "raised" ELSE "llm"]
                /\ UNCHANGED returned
       ELSE /\ pc' = [pc EXCEPT ![t] = "done"]
            /\ returned' = [returned EXCEPT ![t] = ReturnValue(resp)]
            /\ UNCHANGED <<pushes, error, messages>>
    /\ UNCHANGED <<conversation_count, calls, hist, conv, message, contact_prompt,
                   user_input, tmp>>

\* line 269: the LLM call itself fails (transport), and the exception leaves chat
LLMError(t) ==
    /\ pc[t] = "llm"
    /\ llm_calls' = [llm_calls EXCEPT ![t] = @ + 1]
    /\ error' = [error EXCEPT ![t] = "APIError"]
    /\ pc' = [pc EXCEPT ![t] = "raised"]
    /\ UNCHANGED <<conversation_count, calls, hist, conv, message, contact_prompt,
                   user_input, tmp, messages, response, returned, pushes>>

Reset(t) ==
    /\ pc' = [pc EXCEPT ![t] = "idle"]
    /\ conv' = [conv EXCEPT ![t] = 1]
    /\ message' = [message EXCEPT ![t] = <<>>]
    /\ contact_prompt' = [contact_prompt EXCEPT ![t] = NoPrompt]
    /\ user_input' = [user_input EXCEPT ![t] = <<>>]
    /\ tmp' = [tmp EXCEPT ![t] = 0]
    /\ messages' = [messages EXCEPT ![t] = <<>>]
    /\ response' = [response EXCEPT ![t] = NoResponse]
    /\ returned' = [returned EXCEPT ![t] = <<>>]
    /\ error' = [error EXCEPT ![t] = NoError]
    /\ llm_calls' = [llm_calls EXCEPT ![t] = 0]
    /\ pushes' = [pushes EXCEPT ![t] = 0]

\* line 298: the ChatInterface receives the reply and extends the conversation's history
Return(t) ==
    /\ pc[t] = "done"
    /\ hist' = [hist EXCEPT ![conv[t]] =
                   @ \o <<UserMsg(message[t]), AssistantMsg(returned[t], <<>>)>>]
    /\ Reset(t)
    /\ UNCHANGED <<conversation_count, calls>>

\* line 298: the ChatInterface receives the exception; the history is not extended
Propagate(t) ==
    /\ pc[t] = "raised"
    /\ Reset(t)
    /\ UNCHANGED <<conversation_count, calls, hist>>

\* the responses the LLM may give to invocation t, requests drawn from fns
ToolResponses(t, fns) ==
    LET base == CountRole(messages[t], "tool")
    IN  {Response("tool_calls", AssistantMsg(<<>>, b)) :
            b \in UNION {Batches(base, n, fns) : n \in 1..(MaxRequests - base)}}

FinalResponses(replies) ==
    {Response(fr, AssistantMsg(r, <<>>)) : fr \in FinalReasons, r \in replies}

\* the transport outcomes of one dispatch: the Notifier POST fails for no
\* request, or for request k (the dispatch ends at the first failure)
Nets(resp) ==
    LET n == Len(resp.message.tool_calls)
    IN  {[i \in 1..n |-> i = k] : k \in 0..n}

Steps(t) ==
    \/ InitCount(t)
    \/ TestFirst(t)
    \/ TestFifth(t)
    \/ IncLoad(t)
    \/ IncStore(t)
    \/ LLMError(t)
    \/ Return(t)
    \/ Propagate(t)

Quiet == \A u \in Threads : ~Active(u)

\* one conversation, one invocation at a time, every kind of tool request
Next ==
    \/ \E t \in MainThreads, c \in {1}, m \in UserMessages :
          calls < LoopCalls /\ Quiet /\ Enter(t, c, m)
    \/ \E t \in MainThreads :
          \E resp \in ToolResponses(t, Functions) \cup FinalResponses(Replies) :
             \E net \in Nets(resp) :
                llm_calls[t] <= MaxRequests /\ LLMRespond(t, resp, net)
    \/ \E t \in MainThreads : Steps(t)

Spec == Init /\ [][Next]_vars

\* several conversations, one invocation at a time
NextSeq ==
    \/ \E t \in MainThreads, c \in Convs, m \in UserMessages :
          calls < MaxCalls /\ Quiet /\ Enter(t, c, m)
    \/ \E t \in MainThreads :
          \E resp \in ToolResponses(t, PlainFunctions) \cup FinalResponses({<<"a1">>}) :
             \E net \in Nets(resp) :
                llm_calls[t] <= MaxRequests /\ LLMRespond(t, resp, net)
    \/ \E t \in MainThreads : Steps(t)

SpecSeq == Init /\ [][NextSeq]_vars

\* several conversations served by overlapping invocations
NextConc ==
    \/ \E t \in Threads, c \in Convs, m \in UserMessages : calls < ConcCalls /\ Enter(t, c, m)
    \/ \E t \in Threads :
          \E resp \in ToolResponses(t, PlainFunctions) \cup FinalResponses({<<"a1">>}) :
             \E net \in Nets(resp) :
                llm_calls[t] <= MaxRequests /\ LLMRespond(t, resp, net)
    \/ \E t \in Threads : Steps(t)

SpecConc == Init /\ [][NextConc]_vars

(* ------------------------------ properties ---------------------------- *)

\* the message sequence of invocation t has been built (line 263 has run)
Built(t) == pc[t] \in {"llm", "done", "raised"}

\* index of the user message in messages[t]
UserAt(t) == Len(hist[conv[t]]) + 2

\* what chat has appended after the user message
Appended(t) == SubSeq(messages[t], UserAt(t) + 1, Len(messages[t]))

\* the step of t is an LLM call that was answered (LLMRespond), with tool use
ToolStep(t) ==
    /\ pc[t] = "llm"
    /\ llm_calls'[t] = llm_calls[t] + 1
    /\ error'[t] # "APIError"
    /\ response'[t].finish_reason = "tool_calls"

\* new is old followed by the assistant message and one tool message per request
Answers(old, new, msg) ==
    LET n == Len(msg.tool_calls)
    IN  /\ Len(new) = Len(old) + 1 + n
        /\ SubSeq(new, 1, Len(old)) = old
        /\ new[Len(old) + 1] = msg
        /\ \A i \in 1..n : /\ new[Len(old) + 1 + i].role = "tool"
                           /\ new[Len(old) + 1 + i].tool_call_id = msg.tool_calls[i].id

\* every request of every assistant message in msgs is answered, in order, by
\* the tool messages that follow it, and by no other message
AllAnswered(msgs) ==
    /\ \A i \in 1..Len(msgs) :
          msgs[i].role = "assistant" =>
             \A k \in 1..Len(msgs[i].tool_calls) :
                /\ i + k <= Len(msgs)
                /\ msgs[i + k].role = "tool"
                /\ msgs[i + k].tool_call_id = msgs[i].tool_calls[k].id
                /\ Cardinality({j \in 1..Len(msgs) :
                       /\ msgs[j].role = "tool"
                       /\ msgs[j].tool_call_id = msgs[i].tool_calls[k].id}) = 1
    /\ \A j \in 1..Len(msgs) :
          msgs[j].role = "tool" =>
             \E i \in 1..(j - 1) :
                /\ msgs[i].role = "assistant"
                /\ j - i <= Len(msgs[i].tool_calls)

\* C1 as stated: every LLM response with finish indicator "tool_calls" and
\* requests r1..rn makes chat append the assistant message followed by exactly
\* n tool-role messages, the i-th carrying the id of ri.
C1_EveryToolResponseAnswered ==
    [][\A t \in Threads :
          ToolStep(t) => Answers(messages[t], messages'[t], response'[t].message)]_vars

\* C1 amended: every LLM response with finish indicator "tool_calls" whose
\* dispatch does not raise makes chat append the assistant message followed
\* by exactly n tool-role messages, the i-th carrying the id of ri; and at
\* every LLM call each request chat has appended is answered by exactly one
\* tool-role message.
C1_CompletedToolResponseAnswered ==
    /\ [](\A t \in Threads : Built(t) => AllAnswered(Appended(t)))
    /\ [][\A t \in Threads :
             (ToolStep(t) /\ error'[t] = NoError)
                => Answers(messages[t], messages'[t], response'[t].message)]_vars

\* a batch of two requests has been dispatched and answered, and chat is at
\* its next LLM call
C1_Witness ==
    \E t \in Threads :
       /\ pc[t] = "llm"
       /\ Len(response[t].message.tool_calls) = 2
       /\ CountRole(messages[t], "tool") = 2

\* C2: at every LLM call the sequence sent is [persona] + history + [user
\* message] + what chat appended, the persona message is first and inserted
\* once, and nothing chat appends has role system.
C2_PersonaFirstOnce ==
    \A t \in Threads :
       pc[t] = "llm" =>
          /\ messages[t][1] = SystemMsg(SystemPrompt)
          /\ SubSeq(messages[t], 2, UserAt(t) - 1) = hist[conv[t]]
          /\ messages[t][UserAt(t)] = UserMsg(user_input[t])
          /\ \A i \in 1..Len(Appended(t)) : Appended(t)[i].role \in {"assistant", "tool"}
          /\ CountRole(messages[t], "system") = 1 + CountRole(hist[conv[t]], "system")

\* an LLM call after a tool round, in a conversation that already has history
C2_Witness ==
    \E t \in Threads :
       /\ pc[t] = "llm"
       /\ llm_calls[t] >= 1
       /\ Len(hist[conv[t]]) > 0
       /\ Len(Appended(t)) >= 2

Decodable(tool_call) == JsonLoads(tool_call.function.arguments).ok
Registered(tool_call) == tool_call.function.name \in RegistryTools

\* C3 as stated: a batch whose requests all name a tool outside the Registry,
\* with decodable arguments, never raises, invokes no local function (so no
\* Notifier call), and yields the empty mapping {} for each request.
C3_UnknownToolYieldsEmpty ==
    [][\A t \in Threads :
          LET b == response'[t].message.tool_calls
          IN  (ToolStep(t) /\ \A i \in 1..Len(b) : ~Registered(b[i]) /\ Decodable(b[i]))
                 => /\ error'[t] = NoError
                    /\ pushes'[t] = pushes[t]
                    /\ Len(messages'[t]) = Len(messages[t]) + 1 + Len(b)
                    /\ \A i \in 1..Len(b) :
                          messages'[t][Len(messages[t]) + 1 + i].content = <<"{}">>]_vars

\* C4: a batch in which a payload fails to decode, or a bound function
\* raises, is a hard failure: chat appends neither the assistant message nor
\* any tool message, makes no further LLM call, and the error reaches the
\* caller, which gets no reply.
C4_DispatchFailureIsHard ==
    /\ [][\A t \in Threads :
             LET b == response'[t].message.tool_calls
             IN  ToolStep(t) =>
                    /\ (\E i \in 1..Len(b) : ~Decodable(b[i])) => error'[t] \in DispatchErrors
                    /\ error'[t] # NoError =>
                          /\ pc'[t] = "raised"
                          /\ messages'[t] = messages[t]]_vars
    /\ [][\A t \in Threads :
             pc[t] = "raised" => /\ pc'[t] \in {"raised", "idle"}
                                 /\ hist' = hist]_vars

\* the second request of a batch failed after the first one had been executed
C4_Witness ==
    \E t \in Threads :
       /\ pc[t] = "raised"
       /\ error[t] \in DispatchErrors
       /\ Len(response[t].message.tool_calls) = 2
       /\ pushes[t] >= 1
       /\ CountRole(messages[t], "tool") = 0

\* C5: chat returns the content of the first response whose finish indicator
\* is not "tool_calls", unchanged, after k tool rounds and exactly k+1 LLM
\* calls, and calls the LLM no more.
C5_ReturnsFinalContent ==
    /\ [](\A t \in Threads :
             pc[t] = "done" =>
                /\ response[t].finish_reason # "tool_calls"
                /\ returned[t] = response[t].message.content
                /\ llm_calls[t] = CountRole(Appended(t), "assistant") + 1)
    /\ [][\A t \in Threads : pc[t] = "done" => pc'[t] \in {"done", "idle"}]_vars

\* chat has returned a reply after two tool rounds
C5_Witness ==
    \E t \in Threads :
       /\ pc[t] = "done"
       /\ llm_calls[t] = 3
       /\ returned[t] = <<"a2">>

\* the ordinal of the user turn that invocation t serves in its conversation
TurnOf(t) == Len(hist[conv[t]]) \div 2 + 1

\* C6 as stated: in every conversation the preamble is prepended on the 1st
\* and on the 5th user turn, and on every other turn the user's message
\* reaches the LLM unmodified.
C6_PreamblePerConversation ==
    \A t \in Threads :
       Built(t) =>
          /\ TurnOf(t) = 1 => user_input[t] = FirstPrompt \o message[t]
          /\ TurnOf(t) = 5 => user_input[t] = FifthPrompt \o message[t]
          /\ TurnOf(t) \notin {1, 5} => user_input[t] = message[t]

\* the requests chat has dispatched to completion in invocation t
Dispatched(t) ==
    {r \in UNION {{messages[t][i].tool_calls[k] : k \in 1..Len(messages[t][i].tool_calls)} :
                     i \in (UserAt(t) + 1)..Len(messages[t])} : TRUE}

\* C7 as stated: the number of Notifier calls of one chat call equals the
\* number of dispatched requests that name one of the two Registry tools,
\* each of them answered {"recorded": "ok"}.
C7_OnePushPerRegistryRequest ==
    \A t \in Threads :
       pc[t] \in {"llm", "done"} =>
          /\ pushes[t] = Cardinality({r \in Dispatched(t) : Registered(r)})
          /\ \A r \in Dispatched(t) :
                Registered(r) =>
                   \E j \in 1..Len(messages[t]) :
                      /\ messages[t][j].role = "tool"
                      /\ messages[t][j].tool_call_id = r.id
                      /\ messages[t][j].content = <<"{\"recorded\": \"ok\"}">>

\* C8: after a tool-use response whose dispatch does not raise chat stays in
\* AWAITING_MODEL; chat reaches DONE exactly on a response whose finish
\* indicator is not tool use, whatever the number of rounds before it.
C8_DoneIffFinalResponse ==
    /\ [](\A t \in Threads : pc[t] = "done" => response[t].finish_reason # "tool_calls")
    /\ [][\A t \in Threads :
             (pc[t] = "llm" /\ llm_calls'[t] = llm_calls[t] + 1 /\ error'[t] # "APIError") =>
                /\ (response'[t].finish_reason = "tool_calls" /\ error'[t] = NoError)
                      => pc'[t] = "llm"
                /\ response'[t].finish_reason # "tool_calls" <=> pc'[t] = "done"]_vars

\* chat is about to call the LLM a third time, after two tool rounds
C8_Witness ==
    \E t \in Threads :
       /\ pc[t] = "llm"
       /\ llm_calls[t] = 2
       /\ CountRole(Appended(t), "assistant") = 2

\* C9: the counter is shared and its read and write are separate steps: the
\* write stores the value read plus one whatever the counter holds by then,
\* so the counter never exceeds, and can fall below, the number of invocations.
C9_UnsynchronizedCounter ==
    /\ [](conversation_count <= calls)
    /\ [][\A t \in Threads :
             (pc[t] = "store" /\ pc'[t] = "llm") => conversation_count' = tmp[t] + 1]_vars

\* two overlapping invocations both observed 0, both injected the first-turn
\* preamble, and one increment was lost
C9_Witness ==
    /\ \A t \in Threads :
          /\ pc[t] = "llm"
          /\ user_input[t] = FirstPrompt \o message[t]
    /\ calls = 2
    /\ conversation_count = 1

====
